---- MODULE Spec2Model ----
(***************************************************************************)
(* Model of the rescan / header-rewrite engine of filterctld.              *)
(*                                                                         *)
(* The repository carries two complete revisions of the engine:            *)
(*   r1  src/rescan.go:624-1058   line-oriented pass (processMessage)      *)
(*   r2  src/unnamed/part_002     net/mail based pass (writeMessage)       *)
(* The variable rev says which revision is the running binary.  The first  *)
(* part of src/rescan.go (lines 1-623) is a later revision in progress     *)
(* whose helpers are those of r2.                                          *)
(*                                                                         *)
(* Go strings are TLA+ strings.  A file's content is the sequence          *)
(* strings.Split(content, "\n"): content "a\nb\n" is <<"a", "b", "">>.     *)
(* Floats printed with %.3f are integers counting thousandths.             *)
(***************************************************************************)
EXTENDS Integers, Sequences, FiniteSets, TLC

VARIABLES rev, world, fs, dirs, budget, last, scan, pending,
          handler, configFile, mabLock

vars == <<rev, world, fs, dirs, budget, last, scan, pending,
          handler, configFile, mabLock>>

(***************************************************************************)
(* Bounds                                                                  *)
(***************************************************************************)
MaxRescans == 2
MaxSymbols == 3

\* addresses in one answer of the reputation lookup
MaxAnswers == 2

(***************************************************************************)
(* Go strings                                                              *)
(***************************************************************************)
Upper == "ABCDEFGHIJKLMNOPQRSTUVWXYZ"
Lower == "abcdefghijklmnopqrstuvwxyz"
Digits == "0123456789"

At(s, i) == SubSeq(s, i, i)

RECURSIVE IndexFrom(_, _, _)
IndexFrom(s, c, i) ==
  IF i > Len(s) THEN 0 ELSE IF At(s, i) = c THEN i ELSE IndexFrom(s, c, i + 1)

\* strings.IndexByte, 1-based; 0 when c does not occur in s
IndexByte(s, c) == IndexFrom(s, c, 1)

RECURSIVE LastIndexFrom(_, _, _)
LastIndexFrom(s, c, i) ==
  IF i < 1 THEN 0 ELSE IF At(s, i) = c THEN i ELSE LastIndexFrom(s, c, i - 1)

\* strings.LastIndexByte, 1-based; 0 when c does not occur in s
LastIndexByte(s, c) == LastIndexFrom(s, c, Len(s))

HasPrefix(s, p) == Len(s) >= Len(p) /\ SubSeq(s, 1, Len(p)) = p

HasSuffix(s, p) == Len(s) >= Len(p) /\ SubSeq(s, Len(s) - Len(p) + 1, Len(s)) = p

Contains(s, c) == IndexByte(s, c) > 0

CharsOf(s) == {At(s, i) : i \in 1..Len(s)}

\* byte values of the characters that names are compared on
OrdTable ==
  [c \in CharsOf(Upper) \cup CharsOf(Lower) \cup CharsOf(Digits) \cup CharsOf(" -._") |->
     IF IndexByte(Upper, c) > 0 THEN 64 + IndexByte(Upper, c)
     ELSE IF IndexByte(Lower, c) > 0 THEN 96 + IndexByte(Lower, c)
     ELSE IF IndexByte(Digits, c) > 0 THEN 47 + IndexByte(Digits, c)
     ELSE IF c = "_" THEN 95
     ELSE IF c = "-" THEN 45
     ELSE IF c = "." THEN 46
     ELSE 32]

Ord(c) == IF c \in DOMAIN OrdTable THEN OrdTable[c] ELSE 0

\* the < of Go strings: bytewise lexicographic
RECURSIVE StrLess(_, _)
StrLess(a, b) ==
  IF b = "" THEN FALSE
  ELSE IF a = "" THEN TRUE
  ELSE IF Head(a) = Head(b) THEN StrLess(Tail(a), Tail(b))
  ELSE Ord(Head(a)) < Ord(Head(b))

LowerTable == [c \in CharsOf(Upper) |-> At(Lower, IndexByte(Upper, c))]

UpperTable == [c \in CharsOf(Lower) |-> At(Upper, IndexByte(Lower, c))]

ToLowerChar(c) == IF c \in DOMAIN LowerTable THEN LowerTable[c] ELSE c

ToUpperChar(c) == IF c \in DOMAIN UpperTable THEN UpperTable[c] ELSE c

RECURSIVE ToLower(_)
ToLower(s) == IF s = "" THEN "" ELSE ToLowerChar(Head(s)) \o ToLower(Tail(s))

IsSpace(c) == c \in {" ", "\t", "\r", "\n"}

RECURSIVE TrimLeftSpace(_)
TrimLeftSpace(s) ==
  IF s # "" /\ IsSpace(Head(s)) THEN TrimLeftSpace(Tail(s)) ELSE s

RECURSIVE TrimRightSpace(_)
TrimRightSpace(s) ==
  IF s # "" /\ IsSpace(At(s, Len(s)))
  THEN TrimRightSpace(SubSeq(s, 1, Len(s) - 1)) ELSE s

TrimSpace(s) == TrimRightSpace(TrimLeftSpace(s))

\* strings.Split(s, "\n")
RECURSIVE Split(_)
Split(s) ==
  IF IndexByte(s, "\n") = 0 THEN <<s>>
  ELSE <<SubSeq(s, 1, IndexByte(s, "\n") - 1)>>
         \o Split(SubSeq(s, IndexByte(s, "\n") + 1, Len(s)))

\* strconv.Itoa for n >= 0
RECURSIVE Itoa(_)
Itoa(n) ==
  IF n < 10 THEN At(Digits, n + 1)
  ELSE Itoa(n \div 10) \o At(Digits, (n % 10) + 1)

\* fmt.Sprintf("%.3f", x) for x = m / 1000
FormatF3(m) ==
  LET a == IF m < 0 THEN 0 - m ELSE m
      f == a % 1000
  IN (IF m < 0 THEN "-" ELSE "") \o Itoa(a \div 1000) \o "."
       \o (IF f < 10 THEN "00" ELSE IF f < 100 THEN "0" ELSE "") \o Itoa(f)

RECURSIVE FlattenSeq(_)
FlattenSeq(ss) == IF ss = <<>> THEN <<>> ELSE Head(ss) \o FlattenSeq(Tail(ss))

(***************************************************************************)
(* The verdict (RspamdResponse) and the synthesized X-Spam-Status value    *)
(*                                                                         *)
(* A verdict is [Score, Required, Add, Remove, Symbols]: Add is the map    *)
(* Milter.AddHeaders (name -> Value), Remove the key set of                *)
(* Milter.RemoveHeaders, Symbols the symbols in the order in which this    *)
(* run's range over the map response.Symbols yields them.                  *)
(***************************************************************************)
THRESHOLD == 70

MAX_HEADER_LENGTH == 75

\* Go map lookup: the zero value for a missing key
AddValue(v, key) == IF key \in DOMAIN v.Add THEN v.Add[key] ELSE ""

RECURSIVE InsertSymbol(_, _)
InsertSymbol(sorted, sym) ==
  IF sorted = <<>> THEN <<sym>>
  ELSE IF StrLess(sym.Name, Head(sorted).Name) THEN <<sym>> \o sorted
  ELSE <<Head(sorted)>> \o InsertSymbol(Tail(sorted), sym)

RECURSIVE SortByName(_)
SortByName(symbols) ==
  IF symbols = <<>> THEN <<>>
  ELSE InsertSymbol(SortByName(SubSeq(symbols, 1, Len(symbols) - 1)),
                    symbols[Len(symbols)])

\* the symbols as collected from the map, left in iteration order
SymbolsUnsorted(symbols) == symbols

\* sort.Slice(symbols, func(i, j) { return symbols[i].Name < symbols[j].Name })
SortSymbols(symbols) == SortByName(symbols)

Section(symbol) == symbol.Name \o "=" \o FormatF3(symbol.Score)

\* the wrap loop breaking a line inside an entry instead of before it
RECURSIVE WrapTestsSplit_r1(_, _, _, _)
WrapTestsSplit_r1(symbols, spamStatus, line, delim) ==
  IF symbols = <<>> THEN spamStatus \o "]"
  ELSE LET section == Section(Head(symbols))
           wrap == Len(line) + Len(section) > THRESHOLD
       IN WrapTestsSplit_r1(Tail(symbols),
                            IF wrap
                            THEN spamStatus \o "\n" \o line \o delim \o SubSeq(section, 1, 3)
                            ELSE spamStatus,
                            IF wrap THEN "\t" \o SubSeq(section, 4, Len(section))
                            ELSE line \o delim \o section,
                            ", ")

\* r1: the loop that wraps the tests[...] list at THRESHOLD
RECURSIVE WrapTests_r1(_, _, _, _)
WrapTests_r1(symbols, spamStatus, line, delim) ==
  IF symbols = <<>> THEN spamStatus \o "]"
  ELSE LET section == Section(Head(symbols))
           wrap == Len(line) + Len(section) > THRESHOLD
       IN WrapTests_r1(Tail(symbols),
                       IF wrap THEN spamStatus \o "\n" \o line ELSE spamStatus,
                       (IF wrap THEN "\t" ELSE line \o delim) \o section,
                       ", ")

SpamStatus_r1(v) ==
  WrapTests_r1(SortSymbols(v.Symbols),
               AddValue(v, "X-Spam-Status") \o " required=" \o FormatF3(v.Required),
               "\ttests[", "")

RECURSIVE JoinTests_r2(_, _, _)
JoinTests_r2(symbols, spamStatus, delim) ==
  IF symbols = <<>> THEN spamStatus \o "]"
  ELSE JoinTests_r2(Tail(symbols),
                    spamStatus \o delim \o Section(Head(symbols)), ", ")

\* r2: status is message.Header.Get("X-Spam-Status") at that point
SpamStatus_r2(status, v) ==
  JoinTests_r2(SortSymbols(v.Symbols),
               status \o " required=" \o FormatF3(v.Required) \o "\n    tests[",
               "")

(***************************************************************************)
(* Pathnames, files and collaborators                                      *)
(*                                                                         *)
(* fs maps the pathname of every existing regular file to its content,     *)
(* dirs is the set of existing directories.  world holds the answers of    *)
(* the collaborators: verdict (classification service), dns (the address   *)
(* list net.LookupIP returns, each address its four octets), books and     *)
(* class (address-book and class lookups).  A collaborator call can also   *)
(* fail; which call fails is chosen per rescan among world.faults.         *)
(* world.requests holds the message-id lists the clients send to Rescan.   *)
(***************************************************************************)
\* path.Dir / path.Base of a clean absolute pathname
PathDir(p) ==
  IF LastIndexByte(p, "/") <= 1 THEN "/" ELSE SubSeq(p, 1, LastIndexByte(p, "/") - 1)

PathBase(p) == SubSeq(p, LastIndexByte(p, "/") + 1, Len(p))

\* path.Join of clean elements
PathJoin3(a, b, c) == a \o "/" \o b \o "/" \o c

\* content of a file after the given lines were written, each followed by "\n"
Written(lines) == lines \o <<"">>

\* the physical lines of fmt.Fprintf(outfile, "%s: %s\n", key, value)
HeaderLines(key, value) == Split(key \o ": " \o value)

\* the score taken from the first address instead of the last
FirstOctet(ips, score) ==
  IF ips = <<>> THEN score ELSE Head(ips)[4]

\* for _, ip := range ips { ip4 := ip.To4(); score = int(ip4[3]) }
RECURSIVE LastOctet(_, _)
LastOctet(ips, score) ==
  IF ips = <<>> THEN score ELSE LastOctet(Tail(ips), Head(ips)[4])

ReverseLookup(addr) ==
  LET o == [i \in 1..4 |->
              LET RECURSIVE Field(_, _)
                  Field(s, k) ==
                    IF k = 1
                    THEN (IF IndexByte(s, ".") = 0 THEN s
                          ELSE SubSeq(s, 1, IndexByte(s, ".") - 1))
                    ELSE Field(SubSeq(s, IndexByte(s, ".") + 1, Len(s)), k - 1)
              IN Field(addr, i)]
  IN o[4] \o "." \o o[3] \o "." \o o[2] \o "." \o o[1] \o ".score.senderscore.com"

IsDigits(s) == s # "" /\ \A i \in 1..Len(s) : IndexByte(Digits, At(s, i)) > 0

RECURSIVE IsDotted(_, _)
IsDotted(s, n) ==
  IF n = 1 THEN IsDigits(s)
  ELSE /\ IndexByte(s, ".") > 1
       /\ IsDigits(SubSeq(s, 1, IndexByte(s, ".") - 1))
       /\ IsDotted(SubSeq(s, IndexByte(s, ".") + 1, Len(s)), n - 1)

\* addrPattern.FindStringSubmatch(s)[1], "" when the pattern does not match:
\* ^[^[]*\[([0-9]+\.[0-9]+\.[0-9]+\.[0-9]+)\].*
MatchAddr(s) ==
  LET i == IndexByte(s, "[")
      rest == SubSeq(s, i + 1, Len(s))
      j == IndexByte(rest, "]")
      quad == SubSeq(rest, 1, j - 1)
  IN IF i > 0 /\ j > 0 /\ IsDotted(quad, 4) THEN quad ELSE ""

\* some enumeration of a finite set
RECURSIVE SetToSeq(_)
SetToSeq(S) ==
  IF S = {} THEN <<>>
  ELSE LET m == CHOOSE x \in S : TRUE IN <<m>> \o SetToSeq(S \ {m})

\* the orders in which a range over a Go map with these keys is modelled to
\* yield them: every rotation of one enumeration of the keys (Go leaves the
\* order unspecified; these are some of the orders a run can show)
MapOrders(keys) ==
  LET s == SetToSeq(keys)
      n == Len(s)
  IN IF n = 0 THEN {<<>>}
     ELSE {SubSeq(s, k, n) \o SubSeq(s, 1, k - 1) : k \in 1..n}

\* the call of one rescan that fails, if any; a write fails after the given
\* number of lines went out
WriteFailAfter == {0, 3}

\* "post": the transport fails; "status": the service answers with a status
\* outside 200..299 and a JSON body; "decode": the body is not JSON
Failures ==
  {[at |-> a, after |-> 0] :
     a \in {"none", "client", "post", "status", "decode", "dns", "mab", "scan", "class",
            "mkdir", "create"}}
    \cup {[at |-> "write", after |-> k] : k \in WriteFailAfter}

\* APIClient.request: [err, response] of the classification call.  The status
\* test "StatusCode < 200 && StatusCode > 299" is false for every status, so
\* the body of an error answer is decoded like any other: an object without
\* the fields of RspamdResponse leaves the zero value
ZeroVerdict ==
  [Score |-> 0, Required |-> 0, Add |-> [k \in {} |-> ""], Remove |-> {},
   Symbols |-> <<>>]

request(at, verdict) ==
  IF at = "post" THEN [err |-> "request failed", response |-> ZeroVerdict]
  ELSE IF at = "decode"
  THEN [err |-> "failed decoding JSON response", response |-> ZeroVerdict]
  ELSE IF at = "status" THEN [err |-> "", response |-> ZeroVerdict]
  ELSE [err |-> "", response |-> verdict]

(***************************************************************************)
(* r1: src/rescan.go:772-1058                                              *)
(***************************************************************************)
headerKey(line) ==
  IF IndexByte(line, ":") = 0 THEN line
  ELSE SubSeq(line, 1, IndexByte(line, ":") - 1)

isHeader(line) == line # "" /\ ~IsSpace(Head(line))

isBlank(line) == TrimSpace(line) = ""

shouldDelete(key, headersToRemove) ==
  key \in headersToRemove \/ HasPrefix(key, "X-Spam")

\* [key, out]: the key of the buffered header and the lines written for it
writeHeader(lines, headersToRemove) ==
  IF lines = <<>> THEN [key |-> "", out |-> <<>>]
  ELSE IF shouldDelete(headerKey(lines[1]), headersToRemove)
       THEN [key |-> headerKey(lines[1]), out |-> <<>>]
       ELSE [key |-> headerKey(lines[1]), out |-> lines]

\* the insertion block: headersToAdd in map order, then the books
AddBlock_r1(headersToAdd, order, books) ==
  FlattenSeq([i \in 1..Len(order) |-> HeaderLines(order[i], headersToAdd[order[i]])])
    \o [i \in 1..Len(books) |-> "X-Address-Book: " \o books[i]]

\* the loop of processMessage without the check made at the blank line
RECURSIVE processLinesUnchecked(_, _, _, _, _)
processLinesUnchecked(lines, i, st, headersToRemove, block) ==
  IF i > Len(lines) \/ st.err # "" THEN st
  ELSE
    LET line == lines[i]
        flush == writeHeader(st.headerBuf, headersToRemove)
        isRecv == ToLower(flush.key) = "received"
        next ==
          IF st.inHeaders
          THEN IF isHeader(line)
               THEN [st EXCEPT
                       !.out = @ \o flush.out
                                 \o (IF isRecv /\ ~st.received THEN block ELSE <<>>),
                       !.received = @ \/ isRecv,
                       !.headerBuf = <<line>>]
               ELSE IF isBlank(line)
                    THEN [st EXCEPT !.out = @ \o flush.out \o <<"">>,
                                    !.inHeaders = FALSE]
                    ELSE [st EXCEPT !.headerBuf = Append(@, line)]
          ELSE [st EXCEPT !.out = Append(@, line)]
    IN processLinesUnchecked(lines, i + 1, next, headersToRemove, block)

\* the loop of processMessage from line i on; st = [inHeaders, received,
\* headerBuf, out, err], out being the lines written so far
RECURSIVE processLines(_, _, _, _, _)
processLines(lines, i, st, headersToRemove, block) ==
  IF i > Len(lines) \/ st.err # "" THEN st
  ELSE
    LET line == lines[i]
        flush == writeHeader(st.headerBuf, headersToRemove)
        isRecv == ToLower(flush.key) = "received"
        next ==
          IF st.inHeaders
          THEN IF isHeader(line)
               THEN [st EXCEPT
                       !.out = @ \o flush.out
                                 \o (IF isRecv /\ ~st.received THEN block ELSE <<>>),
                       !.received = @ \/ isRecv,
                       !.headerBuf = <<line>>]
               ELSE IF isBlank(line)
                    THEN IF ~st.received
                         THEN [st EXCEPT !.err = "no received header found"]
                         ELSE [st EXCEPT !.out = @ \o flush.out \o <<"">>,
                                         !.inHeaders = FALSE]
                    ELSE [st EXCEPT !.headerBuf = Append(@, line)]
          ELSE [st EXCEPT !.out = Append(@, line)]
    IN processLines(lines, i + 1, next, headersToRemove, block)

\* [err, out]: the error returned and the lines the pass wrote
processMessage(lines, headersToRemove, headersToAdd, order, books) ==
  LET st == processLines(lines, 1,
                         [inHeaders |-> TRUE, received |-> FALSE,
                          headerBuf |-> <<>>, out |-> <<>>, err |-> ""],
                         headersToRemove,
                         AddBlock_r1(headersToAdd, order, books))
  IN [err |-> st.err, out |-> st.out]

\* r1 getSenderScore: [err, score, lookup]; dnsFails: net.LookupIP errs
RECURSIVE getSenderScore_r1(_, _, _, _, _)
getSenderScore_r1(lines, i, received, ips, dnsFails) ==
  IF i > Len(lines)
  THEN [err |-> "failed scan for received IP address", score |-> 0, lookup |-> ""]
  ELSE
    LET isRecv == HasPrefix(lines[i], "Received:")
        n == IF isRecv THEN received + 1 ELSE received
    IN IF isRecv /\ n > 2
       THEN [err |-> "IP address not found in second Received line",
             score |-> 0, lookup |-> ""]
       ELSE IF n = 2 /\ MatchAddr(lines[i]) # ""
            THEN IF dnsFails
                 THEN [err |-> "DNS query failed", score |-> 0,
                       lookup |-> ReverseLookup(MatchAddr(lines[i]))]
                 ELSE [err |-> "", score |-> LastOctet(ips, 0),
                       lookup |-> ReverseLookup(MatchAddr(lines[i]))]
            ELSE getSenderScore_r1(lines, i + 1, n, ips, dnsFails)

SynthKeys_r1 ==
  {"X-Spam-Score", "X-SenderScore", "X-Spam-Class", "X-Spam", "X-Spam-Status",
   "Authentication-Results"}

\* the map headers of r1 RescanMessage
headersToAdd_r1(v, senderScore, class) ==
  [key \in SynthKeys_r1 |->
     CASE key = "X-Spam-Score" -> FormatF3(v.Score) \o " / " \o FormatF3(v.Required)
       [] key = "X-SenderScore" -> Itoa(senderScore)
       [] key = "X-Spam-Class" -> class
       [] key = "X-Spam" -> (IF class = "spam" THEN "yes" ELSE "no")
       [] key = "X-Spam-Status" -> SpamStatus_r1(v)
       [] key = "Authentication-Results" -> AddValue(v, "Authentication-Results")]

\* what one call did: the message, the content read, the error returned
\* ("" for nil), the output pathname it derived ("" when it derived none) and
\* the call that was set to fail during it
Result(file, input, err, out, failed) ==
  [path |-> file, input |-> input, err |-> err, out |-> out, fail |-> failed]

\* r1: strings.Split of what os.ReadFile(file) returned, whose error is not
\* looked at: nothing for a pathname that is not a file
ReadFile_r1(file, files) == IF file \in DOMAIN files THEN files[file] ELSE <<"">>

\* r1 RescanMessage(username, file) with v decoded from the answer of the
\* service: the outcomes [fs, dirs, last] of one call, over the failing call
\* and the order of the map headers
RescanWith_r1(file, files, folders, w, v, failures) ==
  LET lines == ReadFile_r1(file, files)
      outfile == file \o ".out"
      found == getSenderScore_r1(lines, 1, 0, w.dns, FALSE)
      headers == headersToAdd_r1(v, found.score, w.class)
  IN UNION {
       LET pm == processMessage(lines, v.Remove, headers, order, w.books)
       IN {LET ss == getSenderScore_r1(lines, 1, 0, w.dns, fail.at = "dns")
               early ==
                 IF fail.at = "client" THEN "error loading client certificate pair"
                 ELSE IF request(fail.at, v).err # "" THEN request(fail.at, v).err
                 ELSE IF ss.err # "" THEN ss.err
                 ELSE IF fail.at = "mab" THEN "failed creating AddressBookController"
                 ELSE IF fail.at = "scan" THEN "scan address failed"
                 ELSE IF fail.at = "class" THEN "get class failed"
                 ELSE IF fail.at = "create" THEN "failed opening output file"
                 ELSE ""
           IN IF early # ""
              THEN [fs |-> files, dirs |-> folders,
                    last |-> Result(file, lines, early,
                                    IF fail.at = "create" THEN outfile ELSE "", fail.at)]
              ELSE IF fail.at = "write" /\ fail.after < Len(pm.out)
              THEN [fs |-> (outfile :> Written(SubSeq(pm.out, 1, fail.after))) @@ files,
                    dirs |-> folders,
                    last |-> Result(file, lines, "failed writing", outfile, fail.at)]
              ELSE [fs |-> (outfile :> Written(pm.out)) @@ files,
                    dirs |-> folders,
                    last |-> Result(file, lines, pm.err, outfile, fail.at)]
           : fail \in failures}
       : order \in MapOrders(SynthKeys_r1)}

StatusFailures == {fail \in Failures : fail.at = "status"}

\* the verdicts one call can decode, each with the failures that lead to it
Decoded(w) ==
  {d \in {[v |-> w.verdict, failures |-> w.faults \ StatusFailures],
          [v |-> request("status", w.verdict).response,
           failures |-> w.faults \cap StatusFailures]} : d.failures # {}}

\* r1 RescanMessage: the outcomes of one call on the verdict of the service
\* and on what an error answer decodes to
Rescan_r1(file, files, folders, w) ==
  UNION {RescanWith_r1(file, files, folders, w, d.v, d.failures) : d \in Decoded(w)}

NoScan ==
  [userAddress |-> "", folder |-> "", ids |-> <<>>, dir |-> "", err |-> "",
   files |-> <<>>, opened |-> <<>>]

\* RescanMessage is called by the loop of Rescan on the next located
\* message, or on its own on any file as long as no batch was run
Callable(file) ==
  IF pending = <<>> THEN scan = NoScan ELSE file = Head(pending)

\* a loop that goes on to the next message after an error
RemainingAfter(err) == IF pending = <<>> THEN <<>> ELSE Tail(pending)

\* the loop of Rescan returns at the first error
Remaining(err) ==
  IF pending = <<>> \/ err # "" THEN <<>> ELSE Tail(pending)

RescanMessage_r1(file) ==
  /\ rev = "r1"
  /\ budget > 0
  /\ Callable(file)
  /\ \E o \in Rescan_r1(file, fs, dirs, world) :
       /\ fs' = o.fs
       /\ dirs' = o.dirs
       /\ last' = o.last
       /\ pending' = Remaining(o.last.err)
  /\ budget' = budget - 1
  /\ UNCHANGED <<rev, world, scan, handler, configFile, mabLock>>

(***************************************************************************)
(* r2: src/unnamed/part_002:189-476                                        *)
(***************************************************************************)
\* textproto.CanonicalMIMEHeaderKey; a key holding a space is left alone
RECURSIVE CanonicalFrom(_, _)
CanonicalFrom(s, upper) ==
  IF s = "" THEN ""
  ELSE (IF upper THEN ToUpperChar(Head(s)) ELSE ToLowerChar(Head(s)))
         \o CanonicalFrom(Tail(s), Head(s) = "-")

CanonicalMIMEHeaderKey(s) ==
  IF Contains(s, " ") THEN s ELSE CanonicalFrom(s, TRUE)

\* bytes.Trim(line, " \t")
RECURSIVE TrimBlanks(_)
TrimBlanks(s) ==
  IF s # "" /\ Head(s) \in {" ", "\t"} THEN TrimBlanks(Tail(s))
  ELSE IF s # "" /\ At(s, Len(s)) \in {" ", "\t"}
       THEN TrimBlanks(SubSeq(s, 1, Len(s) - 1))
       ELSE s

RECURSIVE TrimLeftBlanks(_)
TrimLeftBlanks(s) ==
  IF s # "" /\ Head(s) \in {" ", "\t"} THEN TrimLeftBlanks(Tail(s)) ELSE s

\* the lines a reader gets from the content: the last element of the split
\* is a line only when it is not empty (no trailing newline)
NumLines(content) ==
  IF content[Len(content)] = "" THEN Len(content) - 1 ELSE Len(content)

\* index of the blank line that ends the header block, 0 if there is none
RECURSIVE BlankIndex(_, _)
BlankIndex(content, i) ==
  IF i > NumLines(content) THEN 0
  ELSE IF content[i] = "" THEN i
  ELSE BlankIndex(content, i + 1)

isContinuation(line) == line # "" /\ Head(line) \in {" ", "\t"}

\* the header map after the lines i..n were read; cur is the continued line
\* being assembled ("" before the first), hdr maps canonical keys to values
RECURSIVE readHeader(_, _, _, _, _)
readHeader(content, i, n, cur, hdr) ==
  LET key == CanonicalMIMEHeaderKey(headerKey(cur))
      value == TrimLeftBlanks(SubSeq(cur, IndexByte(cur, ":") + 1, Len(cur)))
      stored ==
        IF cur = "" THEN hdr
        ELSE IF key \in DOMAIN hdr
             THEN [hdr EXCEPT ![key] = Append(@, value)]
             ELSE (key :> <<value>>) @@ hdr
  IN IF cur # "" /\ IndexByte(cur, ":") = 0
     THEN [err |-> "malformed MIME header line", hdr |-> hdr]
     ELSE IF i > n THEN [err |-> "", hdr |-> stored]
     ELSE IF isContinuation(content[i])
          THEN IF cur = ""
               THEN [err |-> "malformed MIME header initial line", hdr |-> hdr]
               ELSE readHeader(content, i + 1, n,
                               cur \o " " \o TrimBlanks(content[i]), hdr)
          ELSE readHeader(content, i + 1, n, TrimBlanks(content[i]), stored)

\* mail.ReadMessage: [err, Header, Body]; Body is the split of the bytes
\* that follow the blank line
ReadMessage(content) ==
  LET b == BlankIndex(content, 1)
      n == IF b = 0 THEN NumLines(content) ELSE b - 1
      h == readHeader(content, 1, n, "", <<>>)
  IN IF h.err # "" THEN [err |-> h.err, Header |-> <<>>, Body |-> <<"">>]
     ELSE IF b = 0 /\ DOMAIN h.hdr = {}
          THEN [err |-> "EOF", Header |-> <<>>, Body |-> <<"">>]
          ELSE [err |-> "", Header |-> h.hdr,
                Body |-> IF b = 0 THEN <<"">>
                         ELSE SubSeq(content, b + 1, Len(content))]

\* mail.Header.Get
Get(hdr, key) ==
  IF CanonicalMIMEHeaderKey(key) \in DOMAIN hdr
  THEN hdr[CanonicalMIMEHeaderKey(key)][1] ELSE ""

\* mail.ParseAddress: the addr-spec of "a@b" or "Name <a@b>", "" on error
ParseAddress(value) ==
  LET lt == IndexByte(value, "<")
      gt == IndexByte(value, ">")
      spec == IF lt > 0 /\ gt > lt THEN SubSeq(value, lt + 1, gt - 1)
              ELSE TrimSpace(value)
      at == IndexByte(spec, "@")
  IN IF at > 1 /\ at < Len(spec) /\ ~Contains(spec, " ") /\ ~Contains(spec, "<")
     THEN spec ELSE ""

parseHeaderAddr(hdr, key) ==
  IF Get(hdr, key) = "" THEN [err |-> "header not found", addr |-> ""]
  ELSE IF ParseAddress(Get(hdr, key)) = ""
       THEN [err |-> "failed parsing email address from header", addr |-> ""]
       ELSE [err |-> "", addr |-> ParseAddress(Get(hdr, key))]

getSenderIP(hdr) ==
  IF "Received" \notin DOMAIN hdr \/ Len(hdr["Received"]) < 2
  THEN [err |-> "insufficient Received headers", addr |-> ""]
  ELSE IF MatchAddr(hdr["Received"][2]) = ""
       THEN [err |-> "Failed parsing IP address", addr |-> ""]
       ELSE [err |-> "", addr |-> MatchAddr(hdr["Received"][2])]

\* r2 getSenderScore: [err, score, lookup]
getSenderScore(addr, ips, dnsFails) ==
  IF dnsFails
  THEN [err |-> "DNS query failed", score |-> 0, lookup |-> ReverseLookup(addr)]
  ELSE [err |-> "", score |-> LastOctet(ips, 0), lookup |-> ReverseLookup(addr)]

\* the output pathname derived without looking at the name of the directory
generateOutputPathUnchecked(pathname, mkdirFails) ==
  LET filePath == PathDir(pathname)
      fileName == PathBase(pathname)
      parent == PathDir(filePath)
  IN IF mkdirFails THEN [err |-> "failed creating output path", outPath |-> ""]
     ELSE [err |-> "", outPath |-> PathJoin3(parent, "rescan", fileName)]

\* [err, outPath]; the directory is created when err is ""
generateOutputPath(pathname, mkdirFails) ==
  LET filePath == PathDir(pathname)
      fileName == PathBase(pathname)
      parent == PathDir(filePath)
      dir == PathBase(filePath)
  IN IF dir # "cur" THEN [err |-> "dir not cur", outPath |-> ""]
     ELSE IF mkdirFails THEN [err |-> "failed creating output path", outPath |-> ""]
     ELSE [err |-> "", outPath |-> PathJoin3(parent, "rescan", fileName)]

skipAddKeys == {"X-Rspamd-Pre-Result", "X-Rspamd-Action", "X-Spamd-Bar", "X-Spamd-Result"}

\* the keys the two deletion loops collect in deleteKeys
deleteKeys(hdr, remove) ==
  {headerKey_ \in DOMAIN hdr :
     \/ \E removeKey \in remove : ToLower(removeKey) = ToLower(headerKey_)
     \/ HasPrefix(ToLower(headerKey_), "x-spam")
     \/ HasPrefix(ToLower(headerKey_), "x-rspam")}

\* message.Header[key] = values
SetHeader(hdr, key, values) == (key :> values) @@ hdr

\* message.Header after the deletions and the copy of the verdict's headers
CopiedHeaders(hdr, v) ==
  LET kept == [k \in DOMAIN hdr \ deleteKeys(hdr, v.Remove) |-> hdr[k]]
  IN [k \in DOMAIN v.Add \ skipAddKeys |-> <<v.Add[k]>>] @@ kept

\* message.Header as RescanMessage hands it to writeMessage
MungedHeaders(hdr, v, senderScore, books, class) ==
  LET h1 == CopiedHeaders(hdr, v)
      h2 == SetHeader(h1, "X-Spam-Status",
                      <<SpamStatus_r2(Get(h1, "X-Spam-Status"), v)>>)
      h3 == SetHeader(h2, "X-Spam-Score",
                      <<FormatF3(v.Score) \o " / " \o FormatF3(v.Required)>>)
      h4 == SetHeader(h3, "X-SenderScore", <<Itoa(senderScore)>>)
      h5 == IF Len(books) > 0 THEN SetHeader(h4, "X-Address-Book", books) ELSE h4
      h6 == SetHeader(h5, "X-Spam-Class", <<class>>)
  IN SetHeader(h6, "X-Spam", <<IF class = "spam" THEN "yes" ELSE "no">>)

\* the header lines writeMessage writes, keys in the given map order
HeaderOutput(hdr, order) ==
  FlattenSeq([i \in 1..Len(order) |->
    FlattenSeq([j \in 1..Len(hdr[order[i]]) |->
      HeaderLines(order[i], hdr[order[i]][j])])])

\* r2 RescanMessage(client, userAddress, messageFile) with v decoded from
\* the answer of the service: the outcomes [fs, dirs, last] of one call, over
\* the failing call and the order in which writeMessage ranges over
\* message.Header
RescanWith_r2(file, files, folders, w, v, failures) ==
  LET content == files[file]
      message == ReadMessage(content)
      fromAddr == parseHeaderAddr(message.Header, "From")
      rcptToAddr == parseHeaderAddr(message.Header, "To")
      deliveredToAddr == parseHeaderAddr(message.Header, "Delivered-To")
      senderIP == getSenderIP(message.Header)
      parsed ==
        IF message.err # "" THEN "failed parsing mail message"
        ELSE IF fromAddr.err # "" THEN fromAddr.err
        ELSE IF rcptToAddr.err # "" THEN rcptToAddr.err
        ELSE IF deliveredToAddr.err # "" THEN deliveredToAddr.err
        ELSE senderIP.err
      hdr == IF parsed # "" THEN <<>>
             ELSE MungedHeaders(message.Header, v,
                                getSenderScore(senderIP.addr, w.dns, FALSE).score,
                                w.books, w.class)
  IN UNION {
       LET writes == HeaderOutput(hdr, order) \o <<"">>
       IN {LET ss == getSenderScore(senderIP.addr, w.dns, fail.at = "dns")
               outputPath == generateOutputPath(file, fail.at = "mkdir")
               outDir == PathDir(outputPath.outPath)
               early ==
                 IF parsed # "" THEN parsed
                 ELSE IF request(fail.at, v).err # "" THEN request(fail.at, v).err
                 ELSE IF ss.err # "" THEN ss.err
                 ELSE IF fail.at = "scan" THEN "scan request failed"
                 ELSE IF fail.at = "class" THEN "scan request failed"
                 ELSE outputPath.err
           IN IF early # ""
              THEN [fs |-> files, dirs |-> folders,
                    last |-> Result(file, content, early, "", fail.at)]
              ELSE IF fail.at = "create"
              THEN [fs |-> files, dirs |-> folders \cup {outDir},
                    last |-> Result(file, content, "failed opening output file",
                                    outputPath.outPath, fail.at)]
              ELSE IF fail.at = "write" /\ fail.after < Len(writes)
              THEN [fs |-> (outputPath.outPath
                              :> Written(SubSeq(writes, 1, fail.after))) @@ files,
                    dirs |-> folders \cup {outDir},
                    last |-> Result(file, content, "failed writing header line",
                                    outputPath.outPath, fail.at)]
              ELSE [fs |-> (outputPath.outPath :> writes \o message.Body) @@ files,
                    dirs |-> folders \cup {outDir},
                    last |-> Result(file, content, "", outputPath.outPath, fail.at)]
           : fail \in failures}
       : order \in MapOrders(DOMAIN hdr)}

\* r2 RescanMessage: the outcomes of one call on the verdict of the service
\* and on what an error answer decodes to
Rescan_r2(file, files, folders, w) ==
  UNION {RescanWith_r2(file, files, folders, w, d.v, d.failures) : d \in Decoded(w)}

RescanMessage_r2(file) ==
  /\ rev = "r2"
  /\ budget > 0
  /\ Callable(file)
  /\ \E o \in Rescan_r2(file, fs, dirs, world) :
       /\ fs' = o.fs
       /\ dirs' = o.dirs
       /\ last' = o.last
       /\ pending' = Remaining(o.last.err)
  /\ budget' = budget - 1
  /\ UNCHANGED <<rev, world, scan, handler, configFile, mabLock>>

(***************************************************************************)
(* The batch: Rescan(userAddress, folder, messageIds)                      *)
(*   r1  src/rescan.go:671-770      r2  src/unnamed/part_002:58-187        *)
(* scan is what the last call of Rescan located, pending the messages its  *)
(* loop has still to hand to RescanMessage.                                *)
(***************************************************************************)
\* strings.ReplaceAll(s, "/", ".")
RECURSIVE ReplaceSlashes(_)
ReplaceSlashes(s) ==
  IF s = "" THEN ""
  ELSE (IF Head(s) = "/" THEN "." ELSE Head(s)) \o ReplaceSlashes(Tail(s))

\* strings.Cut(s, "@"): [before, found]
CutAt(s) ==
  IF IndexByte(s, "@") = 0 THEN [before |-> s, found |-> FALSE]
  ELSE [before |-> SubSeq(s, 1, IndexByte(s, "@") - 1), found |-> TRUE]

transformPath(user, folder) ==
  IF folder = "/INBOX" THEN "/home/" \o user \o "/Maildir/cur"
  ELSE "/home/" \o user \o "/Maildir/" \o ReplaceSlashes(folder) \o "/cur"

RECURSIVE InsertName(_, _)
InsertName(sorted, name) ==
  IF sorted = <<>> THEN <<name>>
  ELSE IF StrLess(name, Head(sorted)) THEN <<name>> \o sorted
  ELSE <<Head(sorted)>> \o InsertName(Tail(sorted), name)

RECURSIVE SortNames(_)
SortNames(names) ==
  IF names = <<>> THEN <<>>
  ELSE InsertName(SortNames(Tail(names)), Head(names))

\* os.ReadDir(dir): [err, entries], the entries [name, isDir] sorted by
\* filename; err when the directory does not exist
ReadDir(dir, files, folders) ==
  LET names == SortNames(SetToSeq({PathBase(p) : p \in {q \in DOMAIN files \cup folders :
                                                        PathDir(q) = dir}}))
  IN [err |-> dir \notin folders,
      entries |-> [i \in 1..Len(names) |->
                     [name |-> names[i],
                      isDir |-> (dir \o "/" \o names[i]) \in folders]]]

\* the loop appending every entry, directories included
RECURSIVE AllEntries(_, _, _)
AllEntries(dir, entries, n) ==
  IF n = 0 THEN <<>>
  ELSE AllEntries(dir, entries, n - 1) \o <<dir \o "/" \o entries[n].name>>

\* the loop of scanMessageFiles for an empty messageIds: the pathnames
\* appended for the first n entries
RECURSIVE AllFiles(_, _, _)
AllFiles(dir, entries, n) ==
  IF n = 0 THEN <<>>
  ELSE AllFiles(dir, entries, n - 1)
         \o (IF entries[n].isDir THEN <<>> ELSE <<dir \o "/" \o entries[n].name>>)

\* scanMessageFiles(dir, messageIds) for an empty messageIds: [err, files];
\* infoFails: entry.Info() fails on the first file (r2 only calls it)
scanMessageFiles(dir, files, folders, infoFails) ==
  LET rd == ReadDir(dir, files, folders)
      found == AllFiles(dir, rd.entries, Len(rd.entries))
  IN IF rd.err THEN [err |-> "failed reading directory", files |-> <<>>]
     ELSE IF infoFails /\ found # <<>>
          THEN [err |-> "failed reading directory entry", files |-> <<>>]
          ELSE [err |-> "", files |-> found]

\* strings.TrimLeft(s, c) and strings.TrimRight(s, c) for a one-character cutset
RECURSIVE TrimLeftChar(_, _)
TrimLeftChar(s, c) ==
  IF s # "" /\ Head(s) = c THEN TrimLeftChar(Tail(s), c) ELSE s

RECURSIVE TrimRightChar(_, _)
TrimRightChar(s, c) ==
  IF s # "" /\ HasSuffix(s, c) THEN TrimRightChar(SubSeq(s, 1, Len(s) - 1), c) ELSE s

\* r1 getMessageId: [err, id], the first line from i on that starts with
\* "Message-Id:", in the header block or not
RECURSIVE getMessageId_r1(_, _)
getMessageId_r1(lines, i) ==
  IF i > Len(lines) THEN [err |-> "Message-Id not found", id |-> ""]
  ELSE IF HasPrefix(lines[i], "Message-Id:")
       THEN [err |-> "", id |-> TrimSpace(SubSeq(lines[i], 12, Len(lines[i])))]
       ELSE getMessageId_r1(lines, i + 1)

\* getMessageId without the test of len(mid) == 0
MessageIdUnchecked(readErr, mid) ==
  IF readErr # "" THEN [err |-> "panic: nil pointer dereference", id |-> ""]
  ELSE [err |-> "", id |-> mid]

\* r2 getMessageId after mail.ReadMessage: [err, id]; the error of
\* mail.ReadMessage is not looked at, and message is nil when it fails
MessageIdOf(readErr, mid) ==
  IF readErr # "" THEN [err |-> "panic: nil pointer dereference", id |-> ""]
  ELSE IF mid = "" THEN [err |-> "failed parsing Message-Id header", id |-> ""]
  ELSE [err |-> "", id |-> mid]

\* the four trims of getMessageId
NormalId(value) ==
  TrimSpace(TrimRightChar(TrimLeftChar(TrimSpace(value), "<"), ">"))

MessageIdIn(message) ==
  MessageIdOf(message.err, NormalId(Get(message.Header, "Message-Id")))

\* r2 getMessageId: [err, id]
getMessageId(content) == MessageIdIn(ReadMessage(content))

Range(seq) == {seq[i] : i \in 1..Len(seq)}

\* r1: one turn of the loop of scanMessageFiles for a non-empty messageIds on
\* the entry file with the result fileId of getMessageId;
\* st = [err, idMap, count, opened, done], opened being the files handed to
\* getMessageId so far
scanEntry_r1(st, isDir, file, fileId) ==
  IF isDir THEN st
  ELSE IF fileId.err # ""
  THEN [st EXCEPT !.err = fileId.err, !.opened = Append(@, file)]
  ELSE IF fileId.id \in DOMAIN st.idMap
  THEN [st EXCEPT !.idMap[fileId.id] = file, !.count = @ + 1,
                  !.opened = Append(@, file)]
  ELSE [st EXCEPT !.opened = Append(@, file)]

\* if count == total { break }
Counted_r1(st, total) == [st EXCEPT !.done = (st.count = total)]

\* r1: the loop over the entries from i on
RECURSIVE scanIds_r1(_, _, _, _, _, _)
scanIds_r1(dir, entries, i, total, files, st) ==
  IF i > Len(entries) \/ st.err # "" \/ st.done THEN st
  ELSE scanIds_r1(dir, entries, i + 1, total, files,
                  Counted_r1(scanEntry_r1(st, entries[i].isDir,
                                          dir \o "/" \o entries[i].name,
                                          IF entries[i].isDir THEN [err |-> "", id |-> ""]
                                          ELSE getMessageId_r1(
                                                 files[dir \o "/" \o entries[i].name], 1)),
                             total))

\* r1: the results [err, files, opened] of the scan that ended in st, over
\* the orders of the range over idMap
Returned_r1(readErr, st) ==
  IF readErr
  THEN {[err |-> "failed reading directory", files |-> <<>>, opened |-> <<>>]}
  ELSE IF st.err # ""
  THEN {[err |-> st.err, files |-> <<>>, opened |-> st.opened]}
  ELSE {[err |-> "", files |-> [k \in 1..Len(order) |-> st.idMap[order[k]]],
         opened |-> st.opened] : order \in MapOrders(DOMAIN st.idMap)}

ScanFrom_r1(dir, rd, messageIds, files) ==
  Returned_r1(rd.err,
              scanIds_r1(dir, rd.entries, 1, Len(messageIds), files,
                         [err |-> "", idMap |-> [id \in Range(messageIds) |-> "."],
                          count |-> 0, opened |-> <<>>, done |-> FALSE]))

\* r1 scanMessageFiles(dir, messageIds) for a non-empty messageIds
scanMessageIds_r1(dir, messageIds, files, folders) ==
  ScanFrom_r1(dir, ReadDir(dir, files, folders), messageIds, files)

\* r2: one turn of the loop of scanMessageFiles for a non-empty messageIds on
\* the entry pathname with the result mid of getMessageId;
\* st = [err, files, opened, done]
scanEntry(st, isDir, pathname, mid, messageIds, infoFails) ==
  IF isDir THEN st
  ELSE IF mid.err # ""
  THEN [st EXCEPT !.err = mid.err, !.opened = Append(@, pathname)]
  ELSE IF mid.id \in Range(messageIds)
  THEN IF infoFails
       THEN [st EXCEPT !.err = "failed reading directory entry",
                       !.opened = Append(@, pathname)]
       ELSE [st EXCEPT !.files = Append(@, pathname), !.opened = Append(@, pathname)]
  ELSE [st EXCEPT !.opened = Append(@, pathname)]

\* if len(messageFiles) == total { break }
Counted(st, total) == [st EXCEPT !.done = (Len(st.files) = total)]

\* r2: the loop over the entries from i on
RECURSIVE scanIds(_, _, _, _, _, _, _)
scanIds(dir, entries, i, messageIds, files, infoFails, st) ==
  IF i > Len(entries) \/ st.err # "" \/ st.done THEN st
  ELSE scanIds(dir, entries, i + 1, messageIds, files, infoFails,
               Counted(scanEntry(st, entries[i].isDir,
                                 dir \o "/" \o entries[i].name,
                                 IF entries[i].isDir THEN [err |-> "", id |-> ""]
                                 ELSE getMessageId(files[dir \o "/" \o entries[i].name]),
                                 messageIds, infoFails),
                       Len(messageIds)))

Returned(readErr, st) ==
  IF readErr
  THEN [err |-> "failed reading directory", files |-> <<>>, opened |-> <<>>]
  ELSE [err |-> st.err, files |-> st.files, opened |-> st.opened]

ScanFrom(dir, rd, messageIds, files, infoFails) ==
  Returned(rd.err,
           scanIds(dir, rd.entries, 1, messageIds, files, infoFails,
                   [err |-> "", files |-> <<>>, opened |-> <<>>, done |-> FALSE]))

\* r2 scanMessageFiles(dir, messageIds) for a non-empty messageIds:
\* [err, files, opened]
scanMessageIds(dir, messageIds, files, folders, infoFails) ==
  ScanFrom(dir, ReadDir(dir, files, folders), messageIds, files, infoFails)

\* scanMessageFiles(dir, messageIds) of the revision: the possible results
\* [err, files, opened]
Scanned(dir, messageIds, files, folders, revision, infoFails) ==
  IF messageIds = <<>>
  THEN {[err |-> m.err, files |-> m.files, opened |-> <<>>]
          : m \in {scanMessageFiles(dir, files, folders, revision = "r2" /\ infoFails)}}
  ELSE IF revision = "r1" THEN scanMessageIds_r1(dir, messageIds, files, folders)
  ELSE {scanMessageIds(dir, messageIds, files, folders, infoFails)}

\* what the calls before the loop can fail on
ScanFailures == {"none", "info", "client"}

\* Rescan up to its loop: the possible records
\* [userAddress, folder, ids, dir, err, files, opened]
Located(userAddress, folder, messageIds, files, folders, revision, fail) ==
  LET username == CutAt(userAddress)
      path == transformPath(username.before, folder)
      call == [userAddress |-> userAddress, folder |-> folder, ids |-> messageIds,
               dir |-> path, err |-> "", files |-> <<>>, opened |-> <<>>]
  IN IF ~username.found
     THEN {[call EXCEPT !.dir = "",
                        !.err = IF revision = "r1" THEN "failed parsing username"
                                ELSE "failed parsing userAddress: " \o userAddress]}
     ELSE {IF messageFiles.err # ""
           THEN [call EXCEPT !.err = "failed scanning message files",
                             !.opened = messageFiles.opened]
           ELSE IF revision = "r2" /\ fail = "client"
           THEN [call EXCEPT !.err = "error loading client certificate pair",
                             !.opened = messageFiles.opened]
           ELSE [call EXCEPT !.files = messageFiles.files,
                             !.opened = messageFiles.opened]
             : messageFiles \in Scanned(path, messageIds, files, folders, revision,
                                        fail = "info")}

Rescan(userAddress, folder, messageIds) ==
  /\ pending = <<>>
  /\ budget > 0
  /\ \E fail \in ScanFailures :
       /\ scan' \in Located(userAddress, folder, messageIds, fs, dirs, rev, fail)
       /\ pending' = scan'.files
  /\ UNCHANGED <<rev, world, fs, dirs, budget, last, handler, configFile, mabLock>>

(***************************************************************************)
(* The HTTP server: one goroutine per req, the class configuration     *)
(* file, the address-book controller                                       *)
(***************************************************************************)
\* the goroutines net/http runs the handlers in
Goroutines == {"g1", "g2"}

\* the classes of an address without entry in the configuration
DefaultClasses == ("ham" :> 0) @@ ("spam" :> 10)

\* classes.SpamClasses: addresses with entry, each with its classes
GetClasses(config, address) ==
  IF address \in DOMAIN config THEN config[address] ELSE DefaultClasses

SetClasses(config, address, classes) == (address :> classes) @@ config

SetThreshold(config, address, name, score) ==
  SetClasses(config, address, (name :> score) @@ GetClasses(config, address))

DeleteClasses(config, address) == [a \in DOMAIN config \ {address} |-> config[a]]

DeleteClass(config, address, name) ==
  SetClasses(config, address,
             [n \in DOMAIN GetClasses(config, address) \ {name} |->
                GetClasses(config, address)[n]])

\* the classes of the body of a post classes request that has some
PostedClasses(req) == (req.name :> req.score)

\* the handlers that read the configuration, that write it, that call the
\* address-book controller
ConfigReaders == {"handleGetClass", "handleGetClasses"}

ConfigWriters ==
  {"handlePostClasses", "handlePutClassThreshold", "handleDeleteUser", "handleDeleteClass"}

ControllerCallers ==
  {"handleListBooks", "handleGetUserDump", "handlePostRestore", "handleAddAddress",
   "handleDeleteAddress", "handlePasswordRequest"}

\* what a handler does to the configuration it read
Modified(req, config) ==
  CASE req.kind = "handlePostClasses" ->
         SetClasses(config, req.address,
                    IF req.score = 0 THEN GetClasses(config, "default")
                    ELSE PostedClasses(req))
    [] req.kind = "handlePutClassThreshold" ->
         SetThreshold(config, req.address, req.name, req.score)
    [] req.kind = "handleDeleteUser" -> DeleteClasses(config, req.address)
    [] req.kind = "handleDeleteClass" ->
         DeleteClass(config, req.address, req.name)
    [] OTHER -> config

\* the method of the controller a handler calls first
Method(kind) ==
  CASE kind = "handleListBooks" -> "GetBooks"
    [] kind = "handleGetUserDump" -> "Dump"
    [] kind = "handlePostRestore" -> "DeleteUser"
    [] kind = "handleAddAddress" -> "AddAddress"
    [] kind = "handleDeleteAddress" -> "DeleteAddress"
    [] OTHER -> "GetPassword"

\* what a handler has written to its ResponseWriter and which calls it has
\* made, in order
Called(log, name) == Append(log, [op |-> name, status |-> 0])

failed(log, status) == Append(log, [op |-> "fail", status |-> status])

succeed(log) == Append(log, [op |-> "succeed", status |-> 200])

NoRequest == [kind |-> "", address |-> "", name |-> "", score |-> 0]

NoHandler == [pc |-> "idle", request |-> NoRequest, config |-> <<>>, log |-> <<>>]

\* a handler up to its first use of the configuration or the controller:
\* checkClientCert, the decoding of the body, the parsing of the number
Accept(g, req, valid) ==
  /\ handler[g].pc = "idle"
  /\ handler' =
       [handler EXCEPT ![g] =
          IF ~valid
          THEN [@ EXCEPT !.pc = "done", !.request = req, !.log = failed(@, 400)]
          ELSE [@ EXCEPT !.request = req,
                         !.pc = IF req.kind \in ControllerCallers THEN "MAB"
                                ELSE "readConfig"]]
  /\ UNCHANGED <<rev, world, fs, dirs, budget, last, scan, pending, configFile, mabLock>>

\* a handler after readConfig returned ok: the log and the position
AfterRead(h, ok) ==
  IF ~ok
  THEN [h EXCEPT !.pc = "done",
                 !.log = IF h.request.kind = "handlePostClasses"
                         THEN failed(failed(Called(@, "classes.New"), 500), 400)
                         ELSE failed(Called(@, "classes.New"), 500)]
  ELSE IF h.request.kind \in ConfigWriters
  THEN [h EXCEPT !.pc = "writeConfig", !.log = Called(@, "classes.New")]
  ELSE [h EXCEPT !.pc = "done", !.log = succeed(Called(@, "classes.New"))]

\* readConfig and what the handler does with its result before it writes
readConfig(g, ok) ==
  /\ handler[g].pc = "readConfig"
  /\ handler' = [handler EXCEPT ![g] = AfterRead([@ EXCEPT !.config = configFile], ok)]
  /\ UNCHANGED <<rev, world, fs, dirs, budget, last, scan, pending, configFile, mabLock>>

\* the change of the configuration read, writeConfig and the response
writeConfig(g, ok) ==
  /\ handler[g].pc = "writeConfig"
  /\ configFile' = IF ok THEN Modified(handler[g].request, handler[g].config)
                   ELSE configFile
  /\ handler' =
       [handler EXCEPT ![g] =
          [@ EXCEPT !.pc = "done",
                    !.config = Modified(handler[g].request, @),
                    !.log = IF ok THEN succeed(Called(@, "config.Write"))
                            ELSE failed(Called(@, "config.Write"), 500)]]
  /\ UNCHANGED <<rev, world, fs, dirs, budget, last, scan, pending, mabLock>>

\* MAB: mabLock.Lock()
MAB(g) ==
  /\ handler[g].pc = "MAB"
  /\ mabLock = ""
  /\ mabLock' = g
  /\ handler' = [handler EXCEPT ![g].pc = "NewAddressBookController"]
  /\ UNCHANGED <<rev, world, fs, dirs, budget, last, scan, pending, configFile>>

\* MAB: api.NewAddressBookController(), the return and the deferred Unlock
NewAddressBookController(g, ok) ==
  /\ handler[g].pc = "NewAddressBookController"
  /\ mabLock' = ""
  /\ handler' =
       [handler EXCEPT ![g] =
          IF ok THEN [@ EXCEPT !.pc = "call",
                               !.log = Called(@, "NewAddressBookController")]
          ELSE [@ EXCEPT !.pc = "done",
                         !.log = failed(Called(@, "NewAddressBookController"), 500)]]
  /\ UNCHANGED <<rev, world, fs, dirs, budget, last, scan, pending, configFile>>

\* a handler after its first call of the controller returned: err == nil for
\* ok, response.Success for success
AfterCall(h, ok, success) ==
  IF h.request.kind = "handlePostRestore"
  THEN [h EXCEPT !.pc = "Restore",
                 !.log = IF ok THEN Called(@, "DeleteUser")
                         ELSE failed(Called(@, "DeleteUser"), 400)]
  ELSE IF ~ok
  THEN [h EXCEPT !.pc = "done", !.log = failed(Called(@, Method(h.request.kind)), 500)]
  ELSE IF h.request.kind = "handleGetUserDump"
  THEN [h EXCEPT !.pc = "readConfig", !.log = Called(@, "Dump")]
  ELSE IF h.request.kind = "handlePasswordRequest" /\ ~success
  THEN [h EXCEPT !.pc = "done", !.log = failed(Called(@, "GetPassword"), 404)]
  ELSE [h EXCEPT !.pc = "done", !.log = succeed(Called(@, Method(h.request.kind)))]

\* the call of the controller the handler obtained, until it has returned
Call(g, ok, success) ==
  /\ handler[g].pc = "call"
  /\ handler' = [handler EXCEPT ![g] = AfterCall(@, ok, success)]
  /\ UNCHANGED <<rev, world, fs, dirs, budget, last, scan, pending, configFile, mabLock>>

\* handlePostRestore: mab.Restore and the response
Restore(g, ok) ==
  /\ handler[g].pc = "Restore"
  /\ handler' =
       [handler EXCEPT ![g] =
          [@ EXCEPT !.pc = "done",
                    !.log = IF ok THEN succeed(Called(@, "Restore"))
                            ELSE failed(Called(@, "Restore"), 500)]]
  /\ UNCHANGED <<rev, world, fs, dirs, budget, last, scan, pending, configFile, mabLock>>

\* no request is being handled
ServerIdle ==
  /\ handler = [g \in Goroutines |-> NoHandler]
  /\ configFile = ("default" :> DefaultClasses)
  /\ mabLock = ""

(***************************************************************************)
(* Inputs: messages, verdicts, collaborator answers, failures              *)
(***************************************************************************)
Inbox == "/home/u/Maildir/cur"

UserAddresses == {"u@y.org", "u"}

Folders == {"/INBOX", "/INBOX/spam", "/lists/a/b", "INBOX/spam"}

SourcePath == "/home/u/Maildir/cur/17"

\* two relay-trace headers, a folded header, a header the verdict removes,
\* a stale classification header, a two-line body
MsgGood ==
  <<"Received: by mx", "Received: from c [203.0.113.9]", "\tby mx2",
    "From: a@x.org", "To: u@y.org", "Delivered-To: u@y.org",
    "X-Old-Header: 1", "Subject: hi", " there", "X-Spam-Status: No",
    "", "body", "more", "">>

\* the relay-trace headers are the last headers of the block
MsgReceivedLast ==
  <<"From: a@x.org", "To: u@y.org", "Delivered-To: u@y.org",
    "x-old-header: 1", "Received: by mx", "Received: from c [203.0.113.9]",
    "", "body", "">>

\* one relay-trace header, the last of the block; the body quotes another
MsgOneReceived ==
  <<"From: a@x.org", "To: u@y.org", "Delivered-To: u@y.org",
    "Received: by mx", "", "Received: from c [203.0.113.9]", "">>

\* one relay-trace header, the first of the block; the body quotes another
MsgOneReceivedFirst ==
  <<"Received: by mx", "From: a@x.org", "To: u@y.org", "Delivered-To: u@y.org",
    "", "Received: from c [203.0.113.9]", "">>

\* no relay-trace header in the header block; the body quotes two
MsgReceivedInBody ==
  <<"From: a@x.org", "To: u@y.org", "Delivered-To: u@y.org",
    "", "Received: by mx", "Received: from c [203.0.113.9]", "">>

\* no relay-trace header
MsgNoReceived ==
  <<"From: a@x.org", "To: u@y.org", "Delivered-To: u@y.org", "Subject: hi",
    "", "body", "">>

\* a header block that ends at end of file, without blank line
MsgNoBlank ==
  <<"Received: by mx", "Received: from c [203.0.113.9]",
    "From: a@x.org", "To: u@y.org", "Delivered-To: u@y.org">>

Messages ==
  {MsgGood, MsgReceivedLast, MsgOneReceived, MsgOneReceivedFirst,
   MsgReceivedInBody, MsgNoReceived, MsgNoBlank}

SymbolNames ==
  {"AWL", "R_SPF_ALLOW_AND_A_MUCH_LONGER_TAIL",
   "MIME_GOOD_AND_A_RATHER_LONG_TAIL_X", "RCVD_IN_DNSWL_NONE_LONG_TAIL_XXXX"}

SymbolScore(name) ==
  CASE name = "AWL" -> 0 - 500
    [] name = "BAYES_SPAM" -> 4500
    [] name = "R_SPF_ALLOW_AND_A_MUCH_LONGER_TAIL" -> 0 - 200
    [] OTHER -> 3000

Symbol(name) == [Name |-> name, Score |-> SymbolScore(name)]

\* the iteration orders of symbol maps of at most MaxSymbols symbols
SymbolSeqs ==
  UNION {{s \in [1..n -> SymbolNames] : \A i, j \in 1..n : i # j => s[i] # s[j]}
          : n \in 0..MaxSymbols}

Verdict(add, remove, names) ==
  [Score |-> 8200, Required |-> 6000, Add |-> add, Remove |-> remove,
   Symbols |-> [i \in 1..Len(names) |-> Symbol(names[i])]]

AddFull ==
  [k \in {"X-Foo", "X-Spamd-Bar", "X-Spam-Status", "Authentication-Results"} |->
     CASE k = "X-Foo" -> "bar"
       [] k = "X-Spamd-Bar" -> "++"
       [] k = "X-Spam-Status" -> "Yes, score=8.200"
       [] k = "Authentication-Results" -> "mx; none"]

AddFoo == [k \in {"X-Foo"} |-> "bar"]

AddNone == [k \in {} |-> ""]

RewriteVerdicts ==
  {Verdict(AddFull, {"X-Old-Header"}, <<"SPAM_A">>),
   Verdict(AddFoo, {"x-old-header"}, <<"BAYES_SPAM", "AWL">>),
   Verdict(AddNone, {}, <<>>)}

Dns == <<<<127, 0, 4, 99>>>>

\* the answers of net.LookupIP: up to MaxAnswers IPv4 addresses, none included
DnsAddresses == {<<127, 0, 4, 99>>, <<127, 0, 4, 12>>}

DnsAnswers == UNION {[1..n -> DnsAddresses] : n \in 0..MaxAnswers}

\* the collaborators of one run: what they answer and the calls that can fail
World(v, books, class) ==
  [verdict |-> v, dns |-> Dns, books |-> books, class |-> class, faults |-> Failures,
   requests |-> {<<>>}]

NoFailure == {fail \in Failures : fail.at = "none"}

(***************************************************************************)
(* Specifications                                                          *)
(***************************************************************************)
Revs == {"r1", "r2"}

NoResult == [path |-> "", input |-> <<>>, err |-> "", out |-> "", fail |-> "none"]

InitWith(messages, worlds, n) ==
  /\ rev \in Revs
  /\ world \in worlds
  /\ fs \in {(SourcePath :> m) : m \in messages}
  /\ dirs = {Inbox}
  /\ budget = n
  /\ last = NoResult
  /\ scan = NoScan
  /\ pending = <<>>
  /\ ServerIdle

\* a mailbox that is rescanned repeatedly, no call failing
Init ==
  InitWith({MsgGood, MsgOneReceived},
           {[World(Verdict(AddFull, {"X-Old-Header"}, <<"SPAM_A">>), b, "spam")
               EXCEPT !.faults = NoFailure]
              : b \in {<<>>, <<"friends">>}},
           MaxRescans)

\* one rescan of each message under each verdict
InitRewrite ==
  InitWith(Messages,
           {World(v, b, c) : v \in RewriteVerdicts, b \in {<<>>, <<"friends">>},
                             c \in {"spam", "ham"}},
           1)

\* one rescan under each symbol map and iteration order, no call failing
InitStatus ==
  InitWith({MsgGood},
           {[World(Verdict(AddFull, {}, names), <<>>, "ham") EXCEPT !.faults = NoFailure]
              : names \in SymbolSeqs},
           1)

\* one rescan under each answer of the reputation lookup
InitScore ==
  InitWith({MsgGood},
           {[World(Verdict(AddFull, {}, <<"AWL">>), <<>>, "ham") EXCEPT !.dns = d]
              : d \in DnsAnswers},
           1)

\* the file names and the subdirectory a mailbox directory can hold
ScanNames == {"17", "21", "9"}

ScanSubdir == "/home/u/Maildir/cur/20.d"

\* a mailbox directory of any of these files, with or without subdirectory
InitScan ==
  /\ rev \in Revs
  /\ world = [World(Verdict(AddNone, {}, <<>>), <<>>, "ham") EXCEPT !.faults = NoFailure]
  /\ fs \in {[p \in {Inbox \o "/" \o n : n \in names} |-> MsgGood]
              : names \in SUBSET ScanNames}
  /\ dirs \in {{Inbox}, {Inbox, ScanSubdir}}
  /\ budget = 1
  /\ last = NoResult
  /\ scan = NoScan
  /\ pending = <<>>
  /\ ServerIdle

\* MsgGood with the line idLine as its fourth header; none for <<>>
MsgWithId(idLine) == SubSeq(MsgGood, 1, 3) \o idLine \o SubSeq(MsgGood, 4, Len(MsgGood))

\* the Message-Id header lines a file of the directory can have: in angle
\* brackets, bare, with an empty value, absent
IdLines(name) ==
  CASE name = "17" -> {<<"Message-Id: <a@x>">>, <<"Message-Id: a@x">>, <<"Message-Id:">>, <<>>}
    [] name = "21" -> {<<"Message-Id: <a@x>">>, <<"Message-Id: a@x">>, <<"Message-Id: <b@x>">>}
    [] OTHER -> {<<"Message-Id: <b@x>">>, <<>>}

\* the message id lists of the requests: one id, two ids, one id twice, an
\* id that no file carries, an id as written between angle brackets
IdRequests ==
  {<<"a@x">>, <<"a@x", "b@x">>, <<"a@x", "a@x">>, <<"a@x", "c@x">>, <<"<b@x>", "a@x">>}

\* a mailbox directory of three files, each with any of the header lines,
\* scanned for message ids
InitIds ==
  /\ rev \in Revs
  /\ world = [World(Verdict(AddNone, {}, <<>>), <<>>, "ham")
               EXCEPT !.faults = NoFailure, !.requests = IdRequests]
  /\ fs \in {[p \in {Inbox \o "/" \o n : n \in ScanNames} |->
                MsgWithId(lines[PathBase(p)])]
              : lines \in {l \in [ScanNames -> UNION {IdLines(n) : n \in ScanNames}] :
                           \A n \in ScanNames : l[n] \in IdLines(n)}}
  /\ dirs = {Inbox}
  /\ budget = 1
  /\ last = NoResult
  /\ scan = NoScan
  /\ pending = <<>>
  /\ ServerIdle

\* the messages of a mailbox directory of three files: the first, the
\* second, the third being the first one without relay trace
BatchMessages ==
  {<<MsgNoReceived, MsgGood, MsgNoReceived>>, <<MsgGood, MsgNoReceived, MsgNoReceived>>,
   <<MsgGood, MsgGood, MsgNoReceived>>}

BatchFiles == <<"/home/u/Maildir/cur/17", "/home/u/Maildir/cur/21", "/home/u/Maildir/cur/9">>

\* a mailbox directory of three messages rescanned as one batch
InitBatch ==
  /\ rev \in Revs
  /\ world = [World(Verdict(AddFoo, {}, <<>>), <<>>, "ham") EXCEPT !.faults = NoFailure]
  /\ fs \in {[p \in Range(BatchFiles) |->
                m[CHOOSE i \in 1..Len(BatchFiles) : BatchFiles[i] = p]]
              : m \in BatchMessages}
  /\ dirs = {Inbox}
  /\ budget = Len(BatchFiles)
  /\ last = NoResult
  /\ scan = NoScan
  /\ pending = <<>>
  /\ ServerIdle

\* the addresses, class names and thresholds of the requests
ClassAddresses == {"u@y.org", "v@y.org"}

ClassNames == {"ham", "spam"}

\* the requests the server receives; score 0 in a post classes request
\* stands for an empty list of classes
ServerRequests ==
  {[kind |-> k, address |-> a, name |-> n, score |-> 5]
     : k \in {"handlePutClassThreshold", "handleDeleteClass"}, a \in ClassAddresses,
       n \in ClassNames}
    \cup {[kind |-> "handleDeleteUser", address |-> a, name |-> "", score |-> 0]
            : a \in ClassAddresses}
    \cup {[kind |-> "handlePostClasses", address |-> "u@y.org", name |-> "spam", score |-> t]
            : t \in {0, 7}}
    \cup {[kind |-> k, address |-> "u@y.org", name |-> "", score |-> 0] : k \in ConfigReaders}
    \cup {[kind |-> k, address |-> "u", name |-> "friends", score |-> 0]
            : k \in ControllerCallers}

\* the server with no request accepted yet
InitServer ==
  /\ rev = "r2"
  /\ world = [World(Verdict(AddNone, {}, <<>>), <<>>, "ham") EXCEPT !.faults = NoFailure]
  /\ fs = (SourcePath :> MsgGood)
  /\ dirs = {Inbox}
  /\ budget = 0
  /\ last = NoResult
  /\ scan = NoScan
  /\ pending = <<>>
  /\ ServerIdle

\* the steps of the handlers, each request in its own goroutine
NextServer ==
  \/ \E g \in Goroutines, req \in ServerRequests, valid \in BOOLEAN :
       Accept(g, req, valid)
  \/ \E g \in Goroutines, ok \in BOOLEAN : readConfig(g, ok)
  \/ \E g \in Goroutines, ok \in BOOLEAN : writeConfig(g, ok)
  \/ \E g \in Goroutines : MAB(g)
  \/ \E g \in Goroutines, ok \in BOOLEAN : NewAddressBookController(g, ok)
  \/ \E g \in Goroutines, ok \in BOOLEAN, success \in BOOLEAN : Call(g, ok, success)
  \/ \E g \in Goroutines, ok \in BOOLEAN : Restore(g, ok)

Next ==
  \/ \E userAddress \in UserAddresses, folder \in Folders, messageIds \in world.requests :
       Rescan(userAddress, folder, messageIds)
  \/ \E file \in DOMAIN fs \cup Range(pending) : RescanMessage_r1(file)
  \/ \E file \in DOMAIN fs : RescanMessage_r2(file)

Spec == Init /\ [][Next]_vars

SpecRewrite == InitRewrite /\ [][Next]_vars

SpecStatus == InitStatus /\ [][Next]_vars

SpecScore == InitScore /\ [][Next]_vars

SpecScan == InitScan /\ [][Next]_vars

SpecIds == InitIds /\ [][Next]_vars

SpecBatch == InitBatch /\ [][Next]_vars

SpecServer == InitServer /\ [][NextServer]_vars

(***************************************************************************)
(* Reading a message file back: header block, headers, body                *)
(***************************************************************************)
\* index of the first blank line of the content, 0 if there is none
RECURSIVE FirstBlank(_, _)
FirstBlank(content, i) ==
  IF i > NumLines(content) THEN 0
  ELSE IF isBlank(content[i]) THEN i
  ELSE FirstBlank(content, i + 1)

\* the lines before the first blank line
HeaderBlock(content) ==
  IF FirstBlank(content, 1) = 0 THEN SubSeq(content, 1, NumLines(content))
  ELSE SubSeq(content, 1, FirstBlank(content, 1) - 1)

\* the split of the bytes after the first blank line
BodyOf(content) ==
  IF FirstBlank(content, 1) = 0 THEN <<"">>
  ELSE SubSeq(content, FirstBlank(content, 1) + 1, Len(content))

\* the indices at which a header starts
HeaderStarts(block) == {i \in 1..Len(block) : isHeader(block[i])}

\* the name of the header that starts at i, in lower case
KeyAt(block, i) == ToLower(headerKey(block[i]))

\* the last line of the header that starts at i
GroupEnd(block, i) ==
  CHOOSE j \in i..Len(block) :
    /\ \A k \in (i + 1)..j : k \notin HeaderStarts(block)
    /\ j = Len(block) \/ (j + 1) \in HeaderStarts(block)

\* the number of headers of that name, letter case ignored
HeaderCount(block, name) ==
  Cardinality({i \in HeaderStarts(block) : KeyAt(block, i) = ToLower(name)})

\* the physical lines of the first header of that name, <<>> if there is none
HeaderGroup(block, name) ==
  LET at == {i \in HeaderStarts(block) : KeyAt(block, i) = ToLower(name)}
      i == CHOOSE x \in at : \A y \in at : x <= y
  IN IF at = {} THEN <<>> ELSE SubSeq(block, i, GroupEnd(block, i))

Min(S) == CHOOSE x \in S : \A y \in S : x <= y

RECURSIVE IsSubseq(_, _)
IsSubseq(a, b) ==
  IF a = <<>> THEN TRUE
  ELSE IF b = <<>> THEN FALSE
  ELSE IF Head(a) = Head(b) THEN IsSubseq(Tail(a), Tail(b))
  ELSE IsSubseq(a, Tail(b))

\* the last call returned nil
Succeeded == last.path # "" /\ last.err = ""

\* the header names the engine synthesizes
SynthNames ==
  {"X-Spam-Status", "X-Spam-Score", "X-SenderScore", "X-Spam-Class", "X-Spam"}

\* the names, in lower case, of the headers a rescan under verdict v adds
BlockNames(v) ==
  {ToLower(n) : n \in SynthNames \cup {"X-Address-Book", "Authentication-Results"}
                       \cup (DOMAIN v.Add \ skipAddKeys)}

\* the widest deletion policy: named by the verdict, letter case ignored, or
\* carrying a classification prefix
Deletable(key, v) ==
  \/ \E r \in v.Remove : ToLower(r) = ToLower(key)
  \/ HasPrefix(ToLower(key), "x-spam")
  \/ HasPrefix(ToLower(key), "x-rspam")

\* the lines of the block that belong to headers the policy retains
RECURSIVE Retained(_, _, _)
Retained(block, v, keep) ==
  IF block = <<>> THEN <<>>
  ELSE LET k == IF isHeader(Head(block))
                THEN ~Deletable(headerKey(Head(block)), v) ELSE keep
       IN (IF k THEN <<Head(block)>> ELSE <<>>) \o Retained(Tail(block), v, k)

(***************************************************************************)
(* Properties                                                              *)
(***************************************************************************)
\* C1: a rescan of <P>/cur/<name> writes the rewritten message to
\* <P>/rescan/<name>, a directory that then exists; the output pathname is
\* not the pathname of a source message (a file of a cur directory) and the
\* content of the source file is what it was before the rescan.
C1_OutputInRescanDir ==
  Succeeded =>
    /\ last.out = PathJoin3(PathDir(PathDir(last.path)), "rescan", PathBase(last.path))
    /\ last.out \in DOMAIN fs
    /\ PathDir(last.out) \in dirs
    /\ PathBase(PathDir(last.out)) # "cur"
    /\ fs[last.path] = last.input

\* C2: a rescan that returns an error leaves no output file for the message.
C2_NoOutputOnError ==
  (last.path # "" /\ last.err # "") => last.out \notin DOMAIN fs

\* C3: when the output of one rescan is rescanned, the second output holds
\* each synthesized header name exactly once, and X-Address-Book once per
\* current book: nothing the first rescan synthesized survives.
C3_RescanIdempotent ==
  (Succeeded /\ last.path # SourcePath) =>
    LET block == HeaderBlock(fs[last.out])
    IN /\ \A n \in SynthNames : HeaderCount(block, n) = 1
       /\ HeaderCount(block, "X-Address-Book") = Len(world.books)

\* C4: in a rewritten message the added headers form one block that starts
\* right after the first Received header: no added header precedes that
\* header, no other header lies between it and an added header, and each
\* synthesized name is there once.
C4_BlockAfterFirstReceived ==
  Succeeded =>
    LET block == HeaderBlock(fs[last.out])
        starts == HeaderStarts(block)
        added == {i \in starts : KeyAt(block, i) \in BlockNames(world.verdict)}
        recv == {i \in starts : KeyAt(block, i) = "received"}
    IN /\ recv # {}
       /\ added # {}
       /\ \A i \in added : i > Min(recv)
       /\ \A i \in added : \A j \in starts : (Min(recv) < j /\ j < i) => j \in added
       /\ \A n \in SynthNames : HeaderCount(block, n) = 1

\* C5: the lines after the blank line that ends the headers are the same in
\* the rewritten message as in the input.
C5_BodyUnchanged ==
  Succeeded => BodyOf(fs[last.out]) = BodyOf(last.input)

\* C6: the lines of the input headers that the deletion policy retains,
\* continuation lines included, appear in the rewritten message verbatim and
\* in the same relative order.
C6_RetainedVerbatim ==
  (Succeeded /\ FirstBlank(last.input, 1) > 0) =>
    IsSubseq(Retained(HeaderBlock(last.input), world.verdict, FALSE),
             HeaderBlock(fs[last.out]))

\* C7: an input header whose name equals, letter case ignored, a name of the
\* verdict's remove set is absent from the rewritten message.
C7_RemoveIgnoresCase ==
  Succeeded =>
    LET inBlock == HeaderBlock(last.input)
    IN \A i \in HeaderStarts(inBlock) :
         (/\ \E r \in world.verdict.Remove : ToLower(r) = KeyAt(inBlock, i)
          /\ KeyAt(inBlock, i) \notin BlockNames(world.verdict))
           => HeaderCount(HeaderBlock(fs[last.out]), KeyAt(inBlock, i)) = 0

\* C8: every add entry of the verdict outside the exclusion set is in the
\* rewritten message exactly once, as the single line "name: value"; no
\* entry of the exclusion set is emitted.  (The names the engine synthesizes
\* itself are left out: their value is the engine's.)
C8_VerdictHeadersCopied ==
  Succeeded =>
    LET block == HeaderBlock(fs[last.out])
    IN \A k \in DOMAIN world.verdict.Add :
         IF k \in skipAddKeys THEN HeaderCount(block, k) = 0
         ELSE k \notin SynthNames =>
                /\ HeaderCount(block, k) = 1
                /\ HeaderGroup(block, k) = <<k \o ": " \o world.verdict.Add[k]>>

\* the physical lines of the X-Spam-Status header of the rewritten message
StatusLines == HeaderGroup(HeaderBlock(fs[last.out]), "X-Spam-Status")

\* strings.Split(s, ",")
RECURSIVE Fields(_)
Fields(s) ==
  IF IndexByte(s, ",") = 0 THEN <<s>>
  ELSE <<SubSeq(s, 1, IndexByte(s, ",") - 1)>>
         \o Fields(SubSeq(s, IndexByte(s, ",") + 1, Len(s)))

\* the part of a name=score entry before the "="
EntryName(entry) ==
  IF IndexByte(entry, "=") = 0 THEN entry
  ELSE SubSeq(entry, 1, IndexByte(entry, "=") - 1)

\* the names of the name=score entries on one continuation line
LineEntries(line) ==
  LET t == TrimSpace(line)
      u == IF HasPrefix(t, "tests[") THEN SubSeq(t, 7, Len(t)) ELSE t
      w == IF HasSuffix(u, "]") THEN SubSeq(u, 1, Len(u) - 1) ELSE u
      f == Fields(w)
  IN IF w = "" THEN <<>>
     ELSE [i \in 1..Len(f) |-> EntryName(TrimSpace(f[i]))]

\* the names of the entries the header carries, in the order emitted
EmittedNames ==
  FlattenSeq([i \in 1..(Len(StatusLines) - 1) |-> LineEntries(StatusLines[i + 1])])

\* C9: the name=score entries of the synthesized X-Spam-Status header are in
\* ascending lexicographic order of symbol name, whatever the order in which
\* the verdict's symbol map was iterated.
C9_SymbolsAscending ==
  Succeeded =>
    \A i \in 1..(Len(EmittedNames) - 1) : StrLess(EmittedNames[i], EmittedNames[i + 1])

\* a rescan succeeded on a symbol map that was iterated out of order, and
\* the header carries the first two symbols of that iteration
C9_Witness ==
  /\ Succeeded
  /\ Len(world.verdict.Symbols) >= 2
  /\ StrLess(world.verdict.Symbols[2].Name, world.verdict.Symbols[1].Name)
  /\ {world.verdict.Symbols[1].Name, world.verdict.Symbols[2].Name}
       \subseteq {EmittedNames[i] : i \in 1..Len(EmittedNames)}

\* C10: no physical line of the synthesized X-Spam-Status header is longer
\* than the maximum header line length.
C10_StatusLinesBounded ==
  Succeeded => \A i \in 1..Len(StatusLines) : Len(StatusLines[i]) <= MAX_HEADER_LENGTH

\* the entries of one continuation line, as written between the commas
LineFields(line) ==
  LET t == TrimSpace(line)
      u == IF HasPrefix(t, "tests[") THEN SubSeq(t, 7, Len(t)) ELSE t
      w == IF HasSuffix(u, "]") THEN SubSeq(u, 1, Len(u) - 1) ELSE u
      f == Fields(w)
  IN IF w = "" THEN <<>>
     ELSE [i \in 1..Len(f) |-> TrimSpace(f[i])]

\* C11: no name=score entry of the X-Spam-Status header is split across two
\* lines: every entry found on a continuation line is the complete
\* name=score text of one symbol of the verdict.
C11_EntriesUnsplit ==
  Succeeded =>
    \A i \in 2..Len(StatusLines) :
      \A k \in 1..Len(LineFields(StatusLines[i])) :
        \E n \in 1..Len(world.verdict.Symbols) :
          LineFields(StatusLines[i])[k] = Section(world.verdict.Symbols[n])

\* a rescan succeeded whose header was broken between two entries: it has two
\* continuation lines that carry entries
C11_Witness ==
  /\ Succeeded
  /\ Len(StatusLines) >= 3
  /\ LineFields(StatusLines[2]) # <<>>
  /\ LineFields(StatusLines[3]) # <<>>

\* C12: the tests[...] list of the synthesized X-Spam-Status header carries
\* every symbol of the verdict exactly once as name=score, a comma separates
\* consecutive entries also where the line breaks, and the list is closed by
\* "]".
C12_EverySymbolListed ==
  Succeeded =>
    /\ Len(EmittedNames) = Len(world.verdict.Symbols)
    /\ \A n \in 1..Len(world.verdict.Symbols) :
         \E i \in 2..Len(StatusLines) :
           \E k \in 1..Len(LineFields(StatusLines[i])) :
             LineFields(StatusLines[i])[k] = Section(world.verdict.Symbols[n])
    /\ \A i \in 2..(Len(StatusLines) - 1) : HasSuffix(StatusLines[i], ",")
    /\ HasSuffix(StatusLines[Len(StatusLines)], "]")

\* C13: the rescan of a message whose header block has fewer than two
\* Received headers returns an error and leaves no output file: a Received
\* line outside the header block never supplies the sender address.
C13_FewerThanTwoReceived ==
  (last.path # "" /\ HeaderCount(HeaderBlock(last.input), "Received") < 2) =>
    /\ last.err # ""
    /\ last.out \notin DOMAIN fs

\* C14: a message whose header block holds no Received header is not rescanned
\* successfully, and whenever a rescan succeeds the insertion block was
\* emitted: the output carries every synthesized header.
C14_NoSuccessWithoutBlock ==
  /\ (last.path # "" /\ HeaderCount(HeaderBlock(last.input), "Received") = 0) =>
       last.err # ""
  /\ Succeeded =>
       \A n \in SynthNames : HeaderCount(HeaderBlock(fs[last.out]), n) >= 1

\* the header pass of r1 reached the blank line of a message whose only
\* Received lines are in the body, and returned its error
C14_Witness ==
  /\ rev = "r1"
  /\ last.input = MsgReceivedInBody
  /\ last.err = "no received header found"

\* C15: when the classification call fails in transport, is answered with a
\* status outside 200..299, or its body cannot be decoded, the rescan of the
\* message returns an error and writes no output file.
C15_ClassificationFailureFatal ==
  (last.path # "" /\ last.fail \in {"post", "status", "decode"}) =>
    /\ last.err # ""
    /\ last.out \notin DOMAIN fs

\* C16: when the reputation lookup fails or answers with an empty address
\* list, the rescan of the message returns an error: no score is made up.
C16_NoAnswerIsError ==
  (last.path # "" /\ (world.dns = <<>> \/ last.fail = "dns")) => last.err # ""

\* the X-SenderScore header of the rewritten message
SenderScoreLines == HeaderGroup(HeaderBlock(fs[last.out]), "X-SenderScore")

\* C17: when the reputation lookup answers with a non-empty list of IPv4
\* addresses, the score written is the last octet of the last address of the
\* list, a number in 0..255.
C17_LastAddressWins ==
  (Succeeded /\ world.dns # <<>>) =>
    /\ SenderScoreLines = <<"X-SenderScore: " \o Itoa(world.dns[Len(world.dns)][4])>>
    /\ world.dns[Len(world.dns)][4] \in 0..255

\* a rescan succeeded on an answer of two addresses whose last octets differ,
\* the last one being neither the first nor the largest
C17_Witness ==
  /\ Succeeded
  /\ Len(world.dns) >= 2
  /\ world.dns[Len(world.dns)][4] < world.dns[1][4]
  /\ SenderScoreLines # <<>>

\* the directory names the folder may map to: every "/" replaced by ".", with
\* one leading "."
DotNames(folder) ==
  {d \in {ReplaceSlashes(folder), "." \o ReplaceSlashes(folder)} :
     HasPrefix(d, ".") /\ ~HasPrefix(d, "..")}

\* C18: the directory located for user and folder is /home/<user>/Maildir/cur
\* when the folder is "/INBOX", and otherwise /home/<user>/Maildir/<d>/cur
\* where <d> is the folder with every "/" replaced by "." and begins with
\* exactly one ".".
C18_TransformPath ==
  (scan # NoScan /\ scan.dir # "") =>
    LET user == CutAt(scan.userAddress).before
    IN IF scan.folder = "/INBOX"
       THEN scan.dir = "/home/" \o user \o "/Maildir/cur"
       ELSE \E d \in DotNames(scan.folder) :
              scan.dir = "/home/" \o user \o "/Maildir/" \o d \o "/cur"

\* C19: a rescan of r2 on a pathname whose parent directory is not named
\* "cur" returns an error and creates no directory and no file.
C19_NotCurRejected ==
  [][(rev = "r2" /\ budget' < budget /\ PathBase(PathDir(last'.path)) # "cur") =>
       (last'.err # "" /\ fs' = fs /\ dirs' = dirs)]_vars

\* r2 was called on the file a previous rescan wrote to the rescan directory
\* and refused it because of its directory
C19_Witness ==
  /\ rev = "r2"
  /\ last.path = "/home/u/Maildir/rescan/17"
  /\ last.err = "dir not cur"

\* C20: a scan without message ids that succeeds returns one pathname for
\* every regular file of the directory and none for a subdirectory, in the
\* order of the directory enumeration (ascending file name).
C20_ScanReturnsEveryFile ==
  [][(budget' = budget /\ scan' # NoScan /\ scan'.err = "") =>
       LET found == scan'.files
           want == {p \in DOMAIN fs : PathDir(p) = scan'.dir}
       IN /\ Len(found) = Cardinality(want)
          /\ {found[i] : i \in 1..Len(found)} = want
          /\ \A i \in 1..Len(found) : found[i] \notin dirs
          /\ \A i \in 1..(Len(found) - 1) :
               StrLess(PathBase(found[i]), PathBase(found[i + 1]))]_vars

\* a scan returned two files of a directory whose enumeration has a
\* subdirectory between them
C20_Witness ==
  /\ scan.err = ""
  /\ Len(scan.files) >= 2
  /\ \E i \in 1..(Len(scan.files) - 1) :
       \E d \in dirs :
         /\ PathDir(d) = scan.dir
         /\ StrLess(PathBase(scan.files[i]), PathBase(d))
         /\ StrLess(PathBase(d), PathBase(scan.files[i + 1]))

\* the regular files of the directory in the order of its enumeration:
\* ascending file name
DirFiles(dir) ==
  LET here == {p \in DOMAIN fs : PathDir(p) = dir}
  IN CHOOSE s \in [1..Cardinality(here) -> here] :
       \A i, j \in 1..Cardinality(here) :
         i < j => StrLess(PathBase(s[i]), PathBase(s[j]))

\* the text after the first ":" of a header line
ValueOf(line) == SubSeq(line, IndexByte(line, ":") + 1, Len(line))

\* the normalized message id a file carries: the value of its first Message-Id
\* header without surrounding white space and angle brackets, "" if the
\* header block has none
CarriedId(content) ==
  LET group == HeaderGroup(HeaderBlock(content), "Message-Id")
  IN IF group = <<>> THEN ""
     ELSE TrimSpace(TrimRightChar(TrimLeftChar(TrimSpace(ValueOf(group[1])), "<"), ">"))

\* every id of the list is carried by one of the first k files of the sequence
AllMatched(ids, files, k) ==
  \A n \in 1..Len(ids) : \E j \in 1..k : CarriedId(fs[files[j]]) = ids[n]

\* C21: a scan for a non-empty list of message ids that succeeds opened the
\* files of the directory in enumeration order, opened no file after every
\* requested id had been matched, and opened every file of the directory
\* when some requested id was left unmatched.
C21_StopsWhenAllMatched ==
  [][(budget' = budget /\ scan'.ids # <<>> /\ scan'.dir # "" /\ scan'.err = "") =>
       /\ Len(scan'.opened) <= Len(DirFiles(scan'.dir))
       /\ scan'.opened = SubSeq(DirFiles(scan'.dir), 1, Len(scan'.opened))
       /\ \A k \in 1..(Len(scan'.opened) - 1) : ~AllMatched(scan'.ids, scan'.opened, k)
       /\ ~AllMatched(scan'.ids, scan'.opened, Len(scan'.opened)) =>
            scan'.opened = DirFiles(scan'.dir)]_vars

InBatch == scan # NoScan /\ scan.err = "" /\ scan.files # <<>>

\* C23: the messages of a batch are handed to RescanMessage one per step in
\* the order the scan returned them; when one fails the batch ends with that
\* error: no later message of it is read, classified or written.
C23_BatchStopsAtFirstError ==
  [][/\ (InBatch /\ budget' < budget) =>
          /\ pending # <<>>
          /\ pending = SubSeq(scan.files, Len(scan.files) - Len(pending) + 1,
                              Len(scan.files))
          /\ last'.path = Head(pending)
          /\ budget' = budget - 1
          /\ pending' = IF last'.err = "" THEN Tail(pending) ELSE <<>>
     /\ (InBatch /\ pending = <<>>) => (budget' = budget /\ fs' = fs /\ last' = last)]_vars

\* the second message of a batch of three failed after the first had been
\* rewritten, and the third was left alone
C23_Witness ==
  /\ InBatch
  /\ Len(scan.files) = 3
  /\ last.path = scan.files[2]
  /\ last.err # ""
  /\ pending = <<>>
  /\ budget = 1
  /\ Cardinality(DOMAIN fs) = 4

\* C25: a scan for a non-empty list of message ids that succeeds returns,
\* for every requested id that a regular file of the directory carries, a
\* file with that id, and every pathname it returns is a regular file of the
\* directory whose normalized Message-Id is one of the requested ids.
C25_RequestedFilesReturned ==
  [][(budget' = budget /\ scan'.ids # <<>> /\ scan'.dir # "" /\ scan'.err = "") =>
       /\ \A n \in 1..Len(scan'.ids) :
            (\E p \in Range(DirFiles(scan'.dir)) : CarriedId(fs[p]) = scan'.ids[n]) =>
              \E i \in 1..Len(scan'.files) :
                /\ scan'.files[i] \in DOMAIN fs
                /\ CarriedId(fs[scan'.files[i]]) = scan'.ids[n]
       /\ \A i \in 1..Len(scan'.files) :
            /\ scan'.files[i] \in Range(DirFiles(scan'.dir))
            /\ CarriedId(fs[scan'.files[i]]) \in Range(scan'.ids)]_vars

\* C26: the header pass does not reject a message whose header block holds a
\* Received header, wherever it stands: the rescan does not end with "no
\* received header found", and when no call failed it succeeds with the
\* synthesized headers after the first Received header.
C26_ReceivedAnywhereAccepted ==
  (last.path # "" /\ HeaderCount(HeaderBlock(last.input), "Received") >= 1) =>
    /\ last.err # "no received header found"
    /\ (last.fail = "none" /\ HeaderCount(HeaderBlock(last.input), "Received") >= 2) =>
         /\ Succeeded
         /\ \A n \in SynthNames : HeaderCount(HeaderBlock(fs[last.out]), n) = 1

\* C27: a scan without message ids never returns the file a rescan has
\* written: the output of a rescan is not in the cur directory of the folder
\* and is not taken as a source message by a later rescan of the folder.
C27_OutputsNotScanned ==
  [][(budget' = budget /\ scan'.ids = <<>> /\ scan'.err = "" /\ last.out \in DOMAIN fs) =>
       /\ last.out \notin Range(scan'.files)
       /\ PathDir(last.out) # scan'.dir]_vars

\* the positions in the log of a handler at which it wrote a response
ResponsesOf(g) ==
  {i \in 1..Len(handler[g].log) : handler[g].log[i].op \in {"fail", "succeed"}}

\* C28: a handler writes one response per request: never a second one,
\* exactly one when it has returned, and after a response written by fail it
\* calls neither the controller nor the configuration.
C28_OneResponsePerRequest ==
  \A g \in Goroutines :
    /\ Cardinality(ResponsesOf(g)) <= 1
    /\ handler[g].pc = "done" => Cardinality(ResponsesOf(g)) = 1
    /\ \A i \in ResponsesOf(g) :
         handler[g].log[i].op = "fail" => i = Len(handler[g].log)

\* the handler has returned after it reported success
Reported(g) ==
  /\ handler[g].pc = "done"
  /\ handler[g].log # <<>>
  /\ handler[g].log[Len(handler[g].log)].op = "succeed"

\* the two requests change different addresses, or different classes of one
\* address
Independent(r1, r2) ==
  \/ r1.address # r2.address
  \/ /\ r1.kind \in {"handlePutClassThreshold", "handleDeleteClass"}
     /\ r2.kind \in {"handlePutClassThreshold", "handleDeleteClass"}
     /\ r1.name # r2.name

\* the configuration shows the change the request asked for
Reflects(config, r) ==
  CASE r.kind = "handlePutClassThreshold" ->
         /\ r.address \in DOMAIN config
         /\ r.name \in DOMAIN config[r.address]
         /\ config[r.address][r.name] = r.score
    [] r.kind = "handleDeleteClass" ->
         /\ r.address \in DOMAIN config
         /\ r.name \notin DOMAIN config[r.address]
    [] r.kind = "handleDeleteUser" -> r.address \notin DOMAIN config
    [] r.kind = "handlePostClasses" ->
         /\ r.address \in DOMAIN config
         /\ r.score # 0 => config[r.address] = (r.name :> r.score)
    [] OTHER -> TRUE

\* C29: when two requests that change the class configuration of different
\* addresses or classes have both reported success, the configuration file
\* shows both changes, however their steps were interleaved.
C29_NoLostUpdate ==
  \A g1, g2 \in Goroutines :
    (/\ g1 # g2
     /\ Reported(g1) /\ Reported(g2)
     /\ handler[g1].request.kind \in ConfigWriters
     /\ handler[g2].request.kind \in ConfigWriters
     /\ Independent(handler[g1].request, handler[g2].request)) =>
       /\ Reflects(configFile, handler[g1].request)
       /\ Reflects(configFile, handler[g2].request)

\* the handler holds a controller whose call has not returned yet
UsesController(g) == handler[g].pc \in {"call", "Restore"}

\* C30: while a handler holds a controller it obtained from MAB and the call
\* has not returned, no other handler holds one or is inside MAB; mabLock is
\* held only inside MAB and is free again when MAB has returned.
C30_ControllerExclusive ==
  /\ \A g1, g2 \in Goroutines :
       (g1 # g2 /\ UsesController(g1)) =>
         (~UsesController(g2) /\ handler[g2].pc # "NewAddressBookController")
  /\ \A g \in Goroutines :
       (mabLock = g) <=> (handler[g].pc = "NewAddressBookController")

====
